---- MODULE Spec2Model ----
(***************************************************************************)
(* Model of src/app.py, the street-sign labeling app: a Streamlit script   *)
(* that is re-run for every user interaction of every browser session,     *)
(* a Supabase table "labels" written by fire-and-forget background         *)
(* threads, and a process-wide cache (ttl=120) of the full table scan.     *)
(*                                                                         *)
(* Strings that the code trims (names, catalog lines) are sequences of     *)
(* one-character strings, so that str.strip() is computed and not assumed. *)
(* The timestamp column is left out: no code under src/ reads it.          *)
(* Reads of the table are assumed to succeed; a failing insert is the      *)
(* action InsertFail.                                                      *)
(***************************************************************************)
EXTENDS Integers, Sequences, FiniteSets, TLC

VARIABLES
    catalog,        \* load_images_list(): cached for the life of the process
    store,          \* the "labels" table: rows in insertion order
    threads,        \* started save_label_bg threads that have not run _save yet
    cache,          \* the st.cache_data entry of fetch_labels
    user,           \* st.session_state.user, per session
    current_image,  \* st.session_state.current_image, per session
    view,           \* what the last script run of the session rendered
    progress,       \* the value handed to st.progress in that run
    pc,             \* where the session's script runner is
    call            \* arguments and result of a direct function call (SpecFn)

vars == <<catalog, store, threads, cache, user, current_image, view, progress, pc, call>>

----------------------------------------------------------------------------
(* Bounds *)

MaxSubmits == 3
MaxRows == 3
MaxLabelSubmits == 2

\* two browser sessions: the fewest that submit concurrently
Sessions == {1, 2}

----------------------------------------------------------------------------
(* Values *)

\* Python's None where a string is expected: no string of the model, all
\* of which are sequences of single characters
None == <<"None">>

Whitespace == {" ", "\n"}

\* CLASSES, in dict order: <<key, display label>>
CLASSES ==
    << <<"obscured", "Stickers / Graffiti">>,
       <<"deterioration", "Weathering / Aging">>,
       <<"blurred", "Motion Blur">>,
       <<"occluded", "Occlusion">>,
       <<"quality", "Low Image Quality">>,
       <<"weather", "Adverse Lighting / Weather">>,
       <<"angle", "Unusual Perspective">> >>

\* REVERSE_CLASSES = {v: k for k, v in CLASSES.items()}: a later item wins
REVERSE_CLASSES ==
    [v \in {CLASSES[i][2] : i \in DOMAIN CLASSES} |->
        LET last == CHOOSE i \in DOMAIN CLASSES :
                        /\ CLASSES[i][2] = v
                        /\ \A j \in DOMAIN CLASSES : CLASSES[j][2] = v => j <= i
        IN  CLASSES[last][1]]

\* Python truthiness of None / a string
Truthy(x) == x # None /\ x # <<>>

\* str.strip(): drop leading and trailing whitespace
RECURSIVE LStrip(_)
LStrip(s) ==
    IF s # <<>> /\ Head(s) \in Whitespace THEN LStrip(Tail(s)) ELSE s

RECURSIVE RStrip(_)
RStrip(s) ==
    IF s # <<>> /\ s[Len(s)] \in Whitespace
    THEN RStrip(SubSeq(s, 1, Len(s) - 1))
    ELSE s

\* str.lstrip() in the place of str.strip()
StripLeft(s) == LStrip(s)

Strip(s) == RStrip(LStrip(s))

----------------------------------------------------------------------------
(* Inputs *)

\* what a user may type into "Enter your name:"
NameInputs ==
    { <<>>, <<" ">>, <<" ", " ">>,
      <<"a">>, <<" ", "a">>, <<"a", " ">>,
      <<"b">>, <<" ", "b", " ">> }

\* the checkboxes a user may tick: sets of positions in options_list.  No
\* code reads the label of a row, so the sessions tick one set; the direct
\* calls below also take rows with an empty label.
CheckboxInputs == { {3} }

\* test.txt: whether os.path.exists finds it, and its lines
TestFiles ==
    { [exists |-> FALSE, lines |-> <<>>],
      [exists |-> TRUE, lines |-> <<>>],
      [exists |-> TRUE, lines |-> << <<"1", "\n">> >>],
      [exists |-> TRUE, lines |-> << <<"1", "\n">>, <<"\n">>, <<" ", "2">> >>] }

----------------------------------------------------------------------------
(* load_images_list *)

RECURSIVE ReadLines(_, _)
ReadLines(lines, image_paths) ==
    IF lines = <<>> THEN image_paths
    ELSE LET line == Strip(Head(lines))
         IN  ReadLines(Tail(lines),
                       IF line # <<>> THEN Append(image_paths, line)
                       ELSE image_paths)

load_images_list(test_file) ==
    IF ~test_file.exists THEN <<>> ELSE ReadLines(test_file.lines, <<>>)

----------------------------------------------------------------------------
(* fetch_labels and its cache *)

NoEntry == [rows |-> <<>>, fresh |-> FALSE]

\* PAGE_SIZE = 1000 in the code, scaled down to keep the table small
PAGE_SIZE == 2

Min(a, b) == IF a <= b THEN a ELSE b

\* .range(start, end) read as positions start..end-1
RangeHalfOpen(table, start, end) == SubSeq(table, start + 1, Min(end, Len(table)))

\* .range(start, end): the rows at the 0-based positions start..end that exist
Range(table, start, end) == SubSeq(table, start + 1, Min(end + 1, Len(table)))

\* the loop of lines 68-73 with "all_rows = rows" for "all_rows.extend(rows)"
RECURSIVE FetchPagesLastOnly(_, _, _, _)
FetchPagesLastOnly(table, offset, total_count, all_rows) ==
    IF offset >= total_count THEN all_rows
    ELSE FetchPagesLastOnly(table, offset + PAGE_SIZE, total_count,
                            Range(table, offset, offset + PAGE_SIZE - 1))

\* for offset in range(0, total_count, PAGE_SIZE): all_rows.extend(page)
RECURSIVE FetchPages(_, _, _, _)
FetchPages(table, offset, total_count, all_rows) ==
    IF offset >= total_count THEN all_rows
    ELSE FetchPages(table, offset + PAGE_SIZE, total_count,
                    all_rows \o Range(table, offset, offset + PAGE_SIZE - 1))

\* the cache entry after a call of fetch_labels(); the call returns its rows.
\* On a miss the table is read as it is at the time of the call.
fetch_labels(c, table) ==
    IF c.fresh THEN c
    ELSE [rows |-> FetchPages(table, 0, Len(table), <<>>), fresh |-> TRUE]

----------------------------------------------------------------------------
(* get_unlabeled_images, get_count *)

EmptyDict == [k \in {} |-> {}]

\* lines 84-85 with the set replaced on every row: counts[image] = {user}
AddUserOverwrite(counts, r) ==
    [k \in DOMAIN counts \cup {r.image} |->
        IF k = r.image THEN {r.user} ELSE counts[k]]

\* lines 84-85 without the add for an image that has an entry
AddUserFirstOnly(counts, r) ==
    [k \in DOMAIN counts \cup {r.image} |->
        IF k \in DOMAIN counts THEN counts[k] ELSE {r.user}]

\* counts[r["image"]] = counts.get(r["image"], set()); counts[...].add(r["user"])
AddUser(counts, r) ==
    LET got == IF r.image \in DOMAIN counts THEN counts[r.image] ELSE {}
    IN  [k \in DOMAIN counts \cup {r.image} |->
            IF k = r.image THEN got \cup {r.user} ELSE counts[k]]

RECURSIVE UnlabeledCounts(_, _)
UnlabeledCounts(rows, counts) ==
    IF rows = <<>> THEN counts
    ELSE UnlabeledCounts(Tail(rows), AddUser(counts, Head(rows)))

\* the list comprehension of line 86 with "<= 2" for "< 2"
RECURSIVE ComprehensionAtMostTwo(_, _)
ComprehensionAtMostTwo(all_images, counts) ==
    IF all_images = <<>> THEN <<>>
    ELSE LET img == Head(all_images)
             users == IF img \in DOMAIN counts THEN counts[img] ELSE {}
             rest == ComprehensionAtMostTwo(Tail(all_images), counts)
         IN  IF Cardinality(users) <= 2 THEN <<img>> \o rest ELSE rest

\* [img for img in all_images if len(counts.get(img, set())) < 2]
RECURSIVE Comprehension(_, _)
Comprehension(all_images, counts) ==
    IF all_images = <<>> THEN <<>>
    ELSE LET img == Head(all_images)
             users == IF img \in DOMAIN counts THEN counts[img] ELSE {}
             rest == Comprehension(Tail(all_images), counts)
         IN  IF Cardinality(users) < 2 THEN <<img>> \o rest ELSE rest

\* get_unlabeled_images counting the rows of an image, not their users
get_unlabeled_images_by_rows(all_images, rows) ==
    SelectSeq(all_images,
              LAMBDA img : Cardinality({i \in DOMAIN rows : rows[i].image = img}) < 2)

get_unlabeled_images(all_images, rows) ==
    Comprehension(all_images, UnlabeledCounts(rows, EmptyDict))

RECURSIVE CountCounts(_, _)
CountCounts(rows, counts) ==
    IF rows = <<>> THEN counts
    ELSE CountCounts(Tail(rows), AddUser(counts, Head(rows)))

\* get_count with the branch of line 95 taken for every min_users
get_count_at_least_one(min_users, rows) ==
    LET counts == CountCounts(rows, EmptyDict)
    IN  Cardinality({k \in DOMAIN counts : Cardinality(counts[k]) >= 1})

get_count(min_users, rows) ==
    LET counts == CountCounts(rows, EmptyDict)
    IN  IF min_users = 1
        THEN Cardinality({k \in DOMAIN counts : Cardinality(counts[k]) >= 1})
        ELSE Cardinality({k \in DOMAIN counts : Cardinality(counts[k]) >= min_users})

\* select_random_image with "if len(unlabeled) > 1" for "if unlabeled"
select_random_image_many(unlabeled) ==
    IF Len(unlabeled) > 1 THEN {unlabeled[i] : i \in DOMAIN unlabeled} ELSE {None}

\* random.choice(unlabeled) if unlabeled else None: the values it may return
select_random_image(unlabeled) ==
    IF unlabeled # <<>> THEN {unlabeled[i] : i \in DOMAIN unlabeled} ELSE {None}

----------------------------------------------------------------------------
(* the page *)

\* selected_labels without line 238: the display labels of the ticked options
RECURSIVE SelectedOptions(_, _)
SelectedOptions(i, ticked) ==
    IF i > Len(CLASSES) THEN <<>>
    ELSE (IF i \in ticked THEN <<CLASSES[i][2]>> ELSE <<>>)
         \o SelectedOptions(i + 1, ticked)

\* selected_labels: the ticked options in options_list order, as class keys
RECURSIVE SelectedKeys(_, _)
SelectedKeys(i, ticked) ==
    IF i > Len(CLASSES) THEN <<>>
    ELSE (IF i \in ticked THEN <<REVERSE_CLASSES[CLASSES[i][2]]>> ELSE <<>>)
         \o SelectedKeys(i + 1, ticked)

\* what a run hands to st.progress: nothing, a fraction num/den, or the
\* exception the division raised
NoProgress == [kind |-> "none", num |-> 0, den |-> 1]

ZeroDivisionError == [kind |-> "ZeroDivisionError", num |-> 0, den |-> 0]

\* min(user_count_once / total_images, 1.0)
ProgressValue(user_count_once, total_images) ==
    IF total_images = 0 THEN ZeroDivisionError
    ELSE IF user_count_once >= total_images
         THEN [kind |-> "fraction", num |-> 1, den |-> 1]
         ELSE [kind |-> "fraction", num |-> user_count_once, den |-> total_images]

NoCall ==
    [fn |-> "none", rows |-> <<>>, all_images |-> <<>>, min_users |-> 0,
     unlabeled |-> <<>>, count |-> 0, image |-> None,
     offset |-> 0, total_count |-> 0]

Init ==
    /\ \E test_file \in TestFiles : catalog = load_images_list(test_file)
    /\ store = <<>>
    /\ threads = <<>>
    /\ cache = NoEntry
    /\ user = [s \in Sessions |-> None]
    /\ current_image = [s \in Sessions |-> None]
    /\ view = [s \in Sessions |-> "login"]
    /\ progress = [s \in Sessions |-> NoProgress]
    /\ pc = [s \in Sessions |-> "idle"]
    /\ call = NoCall

----------------------------------------------------------------------------
(* One action per user event; an action runs the script to the point where *)
(* the session waits for the next event.  st.rerun() restarts the script   *)
(* on the same runner thread, so the restarted run belongs to the action.  *)
(* A run of a logged-in session first calls get_stats_per_user (line 164), *)
(* whose fetch_labels() fills the cache for the calls that follow.         *)

RemoveAt(seq, i) == SubSeq(seq, 1, i - 1) \o SubSeq(seq, i + 1, Len(seq))

\* lines 245-249
RenderProgress(rows) == ProgressValue(get_count(1, rows), Len(catalog))

\* MainBlock with lines 245-249 outside the else branch of line 204
MainBlockProgressAlways(s, c, cur) ==
    LET unlabeled == get_unlabeled_images(catalog, c.rows)
    IN  /\ cache' = c
        /\ pc' = [pc EXCEPT ![s] = "idle"]
        /\ progress' = [progress EXCEPT ![s] = RenderProgress(c.rows)]
        /\ IF RenderProgress(c.rows) = ZeroDivisionError
           THEN /\ view' = [view EXCEPT ![s] = "error"]
                /\ current_image' = [current_image EXCEPT ![s] = cur]
           ELSE IF unlabeled = <<>>
           THEN /\ view' = [view EXCEPT ![s] = "done"]
                /\ current_image' = [current_image EXCEPT ![s] = cur]
           ELSE /\ \E img \in (IF cur = None THEN select_random_image(unlabeled)
                               ELSE {cur}) :
                        current_image' = [current_image EXCEPT ![s] = img]
                /\ view' = [view EXCEPT ![s] = "form"]

\* MainBlock without lines 205-206: current_image is shown as it is
MainBlockNoRedraw(s, c, cur) ==
    LET unlabeled == get_unlabeled_images(catalog, c.rows)
    IN  /\ cache' = c
        /\ pc' = [pc EXCEPT ![s] = "idle"]
        /\ current_image' = [current_image EXCEPT ![s] = cur]
        /\ IF unlabeled = <<>>
           THEN /\ view' = [view EXCEPT ![s] = "done"]
                /\ progress' = [progress EXCEPT ![s] = NoProgress]
           ELSE /\ progress' = [progress EXCEPT ![s] = RenderProgress(c.rows)]
                /\ view' = [view EXCEPT ![s] =
                        IF RenderProgress(c.rows) = ZeroDivisionError
                        THEN "error" ELSE "form"]

\* lines 197-249 of a run in which no button is pressed, for a logged-in
\* session whose current_image is cur, with cache entry c
MainBlock(s, c, cur) ==
    LET unlabeled == get_unlabeled_images(catalog, c.rows)
    IN  /\ cache' = c
        /\ pc' = [pc EXCEPT ![s] = "idle"]
        /\ IF unlabeled = <<>>
           THEN /\ view' = [view EXCEPT ![s] = "done"]
                /\ progress' = [progress EXCEPT ![s] = NoProgress]
                /\ current_image' = [current_image EXCEPT ![s] = cur]
           ELSE /\ \E img \in (IF cur = None THEN select_random_image(unlabeled)
                               ELSE {cur}) :
                        current_image' = [current_image EXCEPT ![s] = img]
                /\ progress' = [progress EXCEPT ![s] = RenderProgress(c.rows)]
                /\ view' = [view EXCEPT ![s] =
                        IF RenderProgress(c.rows) = ZeroDivisionError
                        THEN "error" ELSE "form"]

\* Start with "st.session_state.user = name" at line 190
StartNoStrip(s, name) ==
    /\ pc[s] = "idle"
    /\ user[s] = None
    /\ IF Truthy(Strip(name))
       THEN /\ user' = [user EXCEPT ![s] = name]
            /\ MainBlock(s, fetch_labels(cache, store), current_image[s])
       ELSE /\ view' = [view EXCEPT ![s] = "warning"]
            /\ UNCHANGED <<user, pc, cache, current_image, progress>>
    /\ UNCHANGED <<catalog, store, threads, call>>

\* "Start" pressed on the login page (lines 182-193)
Start(s, name) ==
    /\ pc[s] = "idle"
    /\ user[s] = None
    /\ IF Truthy(Strip(name))
       THEN /\ user' = [user EXCEPT ![s] = Strip(name)]
            /\ MainBlock(s, fetch_labels(cache, store), current_image[s])
       ELSE /\ view' = [view EXCEPT ![s] = "warning"]
            /\ UNCHANGED <<user, pc, cache, current_image, progress>>
    /\ UNCHANGED <<catalog, store, threads, call>>

\* a run with no button pressed (some other widget event)
Run(s) ==
    /\ pc[s] = "idle"
    /\ IF ~Truthy(user[s])
       THEN /\ view' = [view EXCEPT ![s] = "login"]
            /\ UNCHANGED <<pc, cache, current_image, progress>>
       ELSE MainBlock(s, fetch_labels(cache, store), current_image[s])
    /\ UNCHANGED <<catalog, store, threads, user, call>>

\* "Submit" pressed on the form: the run up to save_label_bg (line 239)
Submit(s, ticked) ==
    /\ pc[s] = "idle"
    /\ view[s] = "form"
    /\ Len(store) + Len(threads) < MaxSubmits
    /\ LET c == fetch_labels(cache, store)
           unlabeled == get_unlabeled_images(catalog, c.rows)
       IN  /\ cache' = c
           /\ IF unlabeled = <<>>
              THEN /\ view' = [view EXCEPT ![s] = "done"]
                   /\ progress' = [progress EXCEPT ![s] = NoProgress]
                   /\ UNCHANGED <<current_image, threads, pc>>
              ELSE /\ \E img_path \in (IF current_image[s] = None
                                       THEN select_random_image(unlabeled)
                                       ELSE {current_image[s]}) :
                        /\ current_image' = [current_image EXCEPT ![s] = img_path]
                        /\ threads' = Append(threads,
                                [user |-> user[s], image |-> img_path,
                                 label |-> SelectedKeys(1, ticked)])
                   /\ pc' = [pc EXCEPT ![s] = "draw"]
                   /\ UNCHANGED <<view, progress>>
    /\ UNCHANGED <<catalog, store, user, call>>

\* line 240 choosing among the eligible images other than the one submitted
DrawAvoidsSubmitted(s) ==
    /\ pc[s] = "draw"
    /\ LET c == fetch_labels(cache, store)
           others == SelectSeq(get_unlabeled_images(catalog, c.rows),
                               LAMBDA img : img # current_image[s])
       IN  \E img \in select_random_image(others) : MainBlock(s, c, img)
    /\ UNCHANGED <<catalog, store, threads, user, call>>

\* line 240, st.rerun() and the restarted run
Draw(s) ==
    /\ pc[s] = "draw"
    /\ LET c == fetch_labels(cache, store)
       IN  \E img \in select_random_image(get_unlabeled_images(catalog, c.rows)) :
                MainBlock(s, c, img)
    /\ UNCHANGED <<catalog, store, threads, user, call>>

\* line 256 choosing among all_images
SkipFromCatalog(s) ==
    /\ pc[s] = "idle"
    /\ view[s] = "form"
    /\ LET c == fetch_labels(cache, store)
       IN  IF catalog = <<>>
           THEN MainBlock(s, c, current_image[s])
           ELSE \E img \in select_random_image(catalog) : MainBlock(s, c, img)
    /\ UNCHANGED <<catalog, store, threads, user, call>>

\* "Skip image" pressed on the form (lines 255-257) and the restarted run
Skip(s) ==
    /\ pc[s] = "idle"
    /\ view[s] = "form"
    /\ LET c == fetch_labels(cache, store)
           unlabeled == get_unlabeled_images(catalog, c.rows)
       IN  IF unlabeled = <<>>
           THEN MainBlock(s, c, current_image[s])
           ELSE \E img \in select_random_image(unlabeled) : MainBlock(s, c, img)
    /\ UNCHANGED <<catalog, store, threads, user, call>>

\* the insert as an upsert on (user, image): the row of that pair is replaced
InsertOkUpsertUserImage(i) ==
    /\ i \in DOMAIN threads
    /\ store' = SelectSeq(store, LAMBDA r : ~(r.user = threads[i].user
                                              /\ r.image = threads[i].image))
                    \o <<threads[i]>>
    /\ threads' = RemoveAt(threads, i)
    /\ UNCHANGED <<catalog, cache, user, current_image, view, progress, pc, call>>

\* the insert as an upsert on image: the rows of that image are replaced
InsertOkUpsertImage(i) ==
    /\ i \in DOMAIN threads
    /\ store' = SelectSeq(store, LAMBDA r : r.image # threads[i].image)
                    \o <<threads[i]>>
    /\ threads' = RemoveAt(threads, i)
    /\ UNCHANGED <<catalog, cache, user, current_image, view, progress, pc, call>>

\* the insert returns without having written the row
InsertOkLost(i) ==
    /\ i \in DOMAIN threads
    /\ threads' = RemoveAt(threads, i)
    /\ UNCHANGED <<catalog, store, cache, user, current_image, view, progress, pc, call>>

\* _save of one started thread; the insert succeeds
InsertOk(i) ==
    /\ i \in DOMAIN threads
    /\ store' = Append(store, threads[i])
    /\ threads' = RemoveAt(threads, i)
    /\ UNCHANGED <<catalog, cache, user, current_image, view, progress, pc, call>>

\* a failed insert that is started again, behind the other threads
InsertFailRetry(i) ==
    /\ i \in DOMAIN threads
    /\ threads' = Append(RemoveAt(threads, i), threads[i])
    /\ UNCHANGED <<catalog, store, cache, user, current_image, view, progress, pc, call>>

\* _save of one started thread; execute() raises in the daemon thread
InsertFail(i) ==
    /\ i \in DOMAIN threads
    /\ threads' = RemoveAt(threads, i)
    /\ UNCHANGED <<catalog, store, cache, user, current_image, view, progress, pc, call>>

\* 120 seconds have passed since the cache entry was written
Expire ==
    /\ cache.fresh
    /\ cache' = NoEntry
    /\ UNCHANGED <<catalog, store, threads, user, current_image, view, progress, pc, call>>

Next ==
    \/ \E s \in Sessions, name \in NameInputs : Start(s, name)
    \/ \E s \in Sessions : Run(s)
    \/ \E s \in Sessions, ticked \in CheckboxInputs : Submit(s, ticked)
    \/ \E s \in Sessions : Draw(s)
    \/ \E s \in Sessions : Skip(s)
    \/ \E i \in 1..MaxSubmits : InsertOk(i)
    \/ \E i \in 1..MaxSubmits : InsertFail(i)
    \/ Expire

Spec == Init /\ [][Next]_vars

----------------------------------------------------------------------------
(* Direct calls of the pure functions, on arguments drawn from bounded     *)
(* sets: any rows the table may hold, any catalog test.txt may give.       *)

FnUsers == {<<"a">>, <<"b">>, <<"c">>}

FnImages == {<<"1">>, <<"2">>}

\* the rows the table holds at first; Repeat adds rows of the other label
FnRows ==
    {[user |-> u, image |-> i, label |-> SelectedKeys(1, t)] :
        u \in FnUsers, i \in FnImages, t \in CheckboxInputs}

FnCheckboxInputs == { {}, {3} }

SeqsUpTo(S, n) == UNION {[1..k -> S] : k \in 0..n}

InitFn ==
    /\ catalog = <<>>
    /\ store = <<>>
    /\ threads = <<>>
    /\ cache = NoEntry
    /\ user = [s \in Sessions |-> None]
    /\ current_image = [s \in Sessions |-> None]
    /\ view = [s \in Sessions |-> "login"]
    /\ progress = [s \in Sessions |-> NoProgress]
    /\ pc = [s \in Sessions |-> "idle"]
    /\ \E rows \in SeqsUpTo(FnRows, MaxRows), all_images \in SeqsUpTo(FnImages, 2) :
            call = [NoCall EXCEPT !.rows = rows, !.all_images = all_images]

\* get_unlabeled_images(all_images) with fetch_labels() returning call.rows
CallUnlabeled ==
    /\ call' = [call EXCEPT !.fn = "get_unlabeled_images",
                            !.unlabeled = get_unlabeled_images(call.all_images, call.rows)]
    /\ UNCHANGED <<catalog, store, threads, cache, user, current_image, view, progress, pc>>

\* get_count(min_users) with fetch_labels() returning call.rows
CallCount(min_users) ==
    /\ call' = [call EXCEPT !.fn = "get_count", !.min_users = min_users,
                            !.count = get_count(min_users, call.rows)]
    /\ UNCHANGED <<catalog, store, threads, cache, user, current_image, view, progress, pc>>

\* the table returns the same rows in another order: rows i and i+1 swapped
Permute(i) ==
    /\ i \in 1..(Len(call.rows) - 1)
    /\ call' = [call EXCEPT !.fn = "none",
                            !.rows = [call.rows EXCEPT ![i] = call.rows[i + 1],
                                                       ![i + 1] = call.rows[i]]]
    /\ UNCHANGED <<catalog, store, threads, cache, user, current_image, view, progress, pc>>

\* the user of row i labels the image of row i once more
Repeat(i, ticked) ==
    /\ i \in 1..Len(call.rows)
    /\ Len(call.rows) < MaxRows
    /\ call' = [call EXCEPT !.fn = "none",
                            !.rows = Append(call.rows,
                                [user |-> call.rows[i].user,
                                 image |-> call.rows[i].image,
                                 label |-> SelectedKeys(1, ticked)])]
    /\ UNCHANGED <<catalog, store, threads, cache, user, current_image, view, progress, pc>>

\* select_random_image(unlabeled) on the list get_unlabeled_images returned
CallSelect ==
    /\ call.fn = "get_unlabeled_images"
    /\ \E img \in select_random_image(call.unlabeled) :
            call' = [call EXCEPT !.fn = "select_random_image", !.image = img]
    /\ UNCHANGED <<catalog, store, threads, cache, user, current_image, view, progress, pc>>

NextFn ==
    \/ CallUnlabeled
    \/ CallSelect
    \/ \E min_users \in 1..3 : CallCount(min_users)
    \/ \E i \in 1..MaxRows : Permute(i)
    \/ \E i \in 1..MaxRows, ticked \in FnCheckboxInputs : Repeat(i, ticked)

SpecFn == InitFn /\ [][NextFn]_vars

----------------------------------------------------------------------------
(* Coverage, stated from the rows: the distinct users among the rows of    *)
(* an image.                                                               *)

UsersOf(rows, img) == {rows[i].user : i \in {j \in DOMAIN rows : rows[j].image = img}}

Coverage(rows, img) == Cardinality(UsersOf(rows, img))

Elems(seq) == {seq[i] : i \in DOMAIN seq}

\* len(counts.get(img, set())) for a dict built by the code
DictCoverage(counts, img) ==
    IF img \in DOMAIN counts THEN Cardinality(counts[img]) ELSE 0

\* a name of whitespace only
IsBlank(name) == \A i \in DOMAIN name : name[i] \in Whitespace

----------------------------------------------------------------------------
(* C1 *)

\* C1 as stated: the image on a session's labeling form has labels from
\* fewer than 2 distinct users in the Label Store.
C1_PresentedBelowTwoInStore ==
    \A s \in Sessions :
        (view[s] = "form" /\ current_image[s] # None)
            => Coverage(store, current_image[s]) < 2

\* C1 amended: whenever a run gives a session another image, that image is a
\* catalog image with fewer than 2 distinct users in the snapshot of the
\* Label Store that the run used (the cache entry it leaves).
C1_DrawnBelowTwoInSnapshot ==
    [][\A s \in Sessions :
        (current_image'[s] # current_image[s] /\ current_image'[s] # None)
            => /\ current_image'[s] \in Elems(catalog)
               /\ cache'.fresh
               /\ Coverage(cache'.rows, current_image'[s]) < 2]_vars

\* a session is given an image that one user has labeled in the snapshot,
\* while another image of the catalog is complete in it and was not drawn
C1_Witness ==
    \E s \in Sessions :
        /\ view[s] = "form"
        /\ pc[s] = "idle"
        /\ cache.fresh
        /\ current_image[s] # None
        /\ Coverage(cache.rows, current_image[s]) = 1
        /\ \E img \in Elems(catalog) : Coverage(cache.rows, img) >= 2

----------------------------------------------------------------------------
(* C2 *)

\* C2: the size of the set that get_unlabeled_images and get_count build for
\* an image is the number of distinct users among the rows of that image,
\* and neither swapping rows nor one more row of a (user, image) pair that
\* is there already changes the dict either function builds.
C2_CoverageIsDistinctUsers ==
    /\ [](\A img \in FnImages :
            /\ DictCoverage(UnlabeledCounts(call.rows, EmptyDict), img)
                    = Coverage(call.rows, img)
            /\ DictCoverage(CountCounts(call.rows, EmptyDict), img)
                    = Coverage(call.rows, img))
    /\ [][call'.rows # call.rows =>
            /\ UnlabeledCounts(call'.rows, EmptyDict)
                    = UnlabeledCounts(call.rows, EmptyDict)
            /\ CountCounts(call'.rows, EmptyDict)
                    = CountCounts(call.rows, EmptyDict)]_vars

\* three rows of one image by two users: get_count(2) counts it once
C2_Witness ==
    /\ call.fn = "get_count"
    /\ call.min_users = 2
    /\ Len(call.rows) = 3
    /\ \E img \in FnImages :
            /\ \A i \in DOMAIN call.rows : call.rows[i].image = img
            /\ Coverage(call.rows, img) = 2
    /\ call.count = 1

----------------------------------------------------------------------------
(* C3 *)

\* C3: get_unlabeled_images returns the catalog images with coverage below
\* 2 in catalog order: none with coverage >= 2, none below 2 missing, and
\* the whole catalog when there are no rows.
C3_EligibleIsCatalogBelowTwo ==
    call.fn = "get_unlabeled_images" =>
        /\ call.unlabeled
                = SelectSeq(call.all_images,
                            LAMBDA img : Coverage(call.rows, img) < 2)
        /\ \A img \in Elems(call.unlabeled) : Coverage(call.rows, img) < 2
        /\ \A img \in Elems(call.all_images) :
                Coverage(call.rows, img) < 2 => img \in Elems(call.unlabeled)
        /\ (call.rows = <<>> => call.unlabeled = call.all_images)

\* the scenario of the spec: rows (a,1), (b,1), (a,1) leave only image 2
C3_Witness ==
    /\ call.fn = "get_unlabeled_images"
    /\ call.all_images = << <<"1">>, <<"2">> >>
    /\ Len(call.rows) = 3
    /\ call.rows[1].user = <<"a">> /\ call.rows[1].image = <<"1">>
    /\ call.rows[2].user = <<"b">> /\ call.rows[2].image = <<"1">>
    /\ call.rows[3].user = <<"a">> /\ call.rows[3].image = <<"1">>
    /\ call.unlabeled = << <<"2">> >>

----------------------------------------------------------------------------
(* C4 *)

\* the store is available: no insert fails
NextLive ==
    \/ \E s \in Sessions, name \in NameInputs : Start(s, name)
    \/ \E s \in Sessions : Run(s)
    \/ \E s \in Sessions, ticked \in CheckboxInputs : Submit(s, ticked)
    \/ \E s \in Sessions : Draw(s)
    \/ \E s \in Sessions : Skip(s)
    \/ \E i \in 1..MaxSubmits : InsertOk(i)
    \/ Expire

\* a started thread is scheduled at some time
LiveSpec ==
    Init /\ [][NextLive]_vars /\ WF_vars(\E i \in 1..MaxSubmits : InsertOk(i))

Occurrences(r, rows) == Cardinality({i \in DOMAIN rows : rows[i] = r})

----------------------------------------------------------------------------
(* C5 *)

\* the name between its first and its last non-whitespace character
Trimmed(name) ==
    LET ink == {i \in DOMAIN name : name[i] \notin Whitespace}
        first == CHOOSE i \in ink : \A j \in ink : i <= j
        last == CHOOSE i \in ink : \A j \in ink : j <= i
    IN  [k \in 1..(last - first + 1) |-> name[first + k - 1]]

\* C5: Start with a name that is blank after trimming leaves the session
\* without a user and on the login page, and appends nothing to the Label
\* Store; Start with any other name sets the user to the trimmed name.
C5_StartValidatesName ==
    [][\A s \in Sessions, name \in NameInputs :
        Start(s, name) =>
            IF IsBlank(name)
            THEN /\ user'[s] = None
                 /\ view'[s] = "warning"
                 /\ store' = store
                 /\ threads' = threads
            ELSE /\ user'[s] = Trimmed(name)
                 /\ view'[s] \in {"form", "done"}]_vars

\* one session was turned away with the warning, another one was let in
C5_Witness ==
    \E s, s2 \in Sessions :
        /\ view[s] = "warning"
        /\ user[s] = None
        /\ user[s2] # None
        /\ view[s2] = "form"

----------------------------------------------------------------------------
(* C6 *)

IsPrefix(p, q) == Len(p) <= Len(q) /\ SubSeq(q, 1, Len(p)) = p

\* C6: no step changes or removes a row of the Label Store, and no step
\* lowers the coverage of an image.
C6_CoverageNeverDecreases ==
    [][/\ IsPrefix(store, store')
       /\ \A img \in FnImages : Coverage(store', img) >= Coverage(store, img)]_vars

\* an image has gone from no label to two users, one of them twice
C6_Witness ==
    \E img \in FnImages :
        /\ Coverage(store, img) = 2
        /\ Cardinality({i \in DOMAIN store : store[i].image = img}) = 3

----------------------------------------------------------------------------
(* C7 *)

\* the dict the code builds once the started threads have all inserted,
\* taken in the order in which they were started
FinalCounts == UnlabeledCounts(store \o threads, EmptyDict)

\* C7: whichever started thread inserts next, the coverage sets and the
\* eligible list that result when all of them have inserted stay the same.
C7_InsertsCommute ==
    [][(\E i \in DOMAIN threads : InsertOk(i)) =>
            /\ FinalCounts' = FinalCounts
            /\ get_unlabeled_images(catalog, store' \o threads')
                    = get_unlabeled_images(catalog, store \o threads)]_vars

\* two sessions of different users have submitted the same image and have
\* not drawn yet: the row of one is in the store, the thread of the other
\* has still to insert
C7_Witness ==
    /\ Len(store) >= 1
    /\ Len(threads) >= 1
    /\ \E s1, s2 \in Sessions :
        /\ s1 # s2
        /\ pc[s1] = "draw" /\ pc[s2] = "draw"
        /\ user[s1] # user[s2]
        /\ threads[1].user = user[s1]
        /\ store[Len(store)].user = user[s2]
        /\ store[Len(store)].image = threads[1].image
        /\ \A i \in DOMAIN store : store[i].user # user[s1]
        /\ Len(store) + Len(threads) = 2

----------------------------------------------------------------------------
(* C8 *)

\* C8: a failing insert leaves the Label Store as it was, ends its thread
\* without starting another, and changes nothing a session or the cache
\* holds: the session that submitted is still about to draw its next image.
C8_FailedInsertIsSilent ==
    [][\A i \in DOMAIN threads :
        InsertFail(i) =>
            /\ store' = store
            /\ Len(threads') = Len(threads) - 1
            /\ \A r \in Elems(threads') : r \in Elems(threads)
            /\ <<user, current_image, view, progress, pc, cache>>'
                    = <<user, current_image, view, progress, pc, cache>>]_vars

\* a session has submitted and is about to draw; its thread is gone and the
\* Label Store is empty: the event was dropped
C8_Witness ==
    \E s \in Sessions :
        /\ pc[s] = "draw"
        /\ threads = <<>>
        /\ store = <<>>

----------------------------------------------------------------------------
(* C9 *)

\* C9 as stated: with an empty catalog a logged-in session is shown a
\* progress of 0%.
C9_EmptyCatalogShowsZeroProgress ==
    \A s \in Sessions :
        (catalog = <<>> /\ user[s] # None /\ pc[s] = "idle")
            => (progress[s].kind = "fraction" /\ progress[s].num = 0)

\* C9 amended: no run divides by zero, and with an empty catalog no run
\* computes a progress at all: a logged-in session is shown the
\* all-labeled message.
C9_NoDivisionByZero ==
    \A s \in Sessions :
        /\ progress[s] # ZeroDivisionError
        /\ view[s] # "error"
        /\ progress[s].kind = "fraction" => progress[s].den = Len(catalog)
                                            \/ progress[s].num = progress[s].den
        /\ catalog = <<>> =>
                /\ progress[s] = NoProgress
                /\ (user[s] # None /\ pc[s] = "idle") => view[s] = "done"

\* a session logged in against an empty catalog
C9_Witness ==
    \E s \in Sessions :
        /\ catalog = <<>>
        /\ user[s] # None
        /\ pc[s] = "idle"
        /\ view[s] = "done"

----------------------------------------------------------------------------
(* C10 *)

\* C10: a session that a run has shown the all-labeled message is shown it
\* by every later run, and is never shown the labeling form again.
C10_DoneIsTerminal ==
    [][\A s \in Sessions : view[s] = "done" => view'[s] = "done"]_vars

\* a session is done over a catalog with images, the cache entry it saw is
\* gone, and the store holds more rows than the two that completed its image
C10_Witness ==
    \E s \in Sessions :
        /\ view[s] = "done"
        /\ pc[s] = "idle"
        /\ catalog # <<>>
        /\ ~cache.fresh
        /\ Len(store) > 2

----------------------------------------------------------------------------
(* C11 *)

\* C11: get_count(min_users) is the number of images that have labels from
\* at least min_users distinct users among the fetched rows, and 0 when
\* there are no rows.
C11_CountIsImagesWithCoverage ==
    call.fn = "get_count" =>
        /\ call.count
                = Cardinality({img \in FnImages :
                                    Coverage(call.rows, img) >= call.min_users})
        /\ (call.rows = <<>> => call.count = 0)

\* one image has two users, the other one user: get_count(2) counts the
\* first only
C11_Witness ==
    /\ call.fn = "get_count"
    /\ call.min_users = 2
    /\ call.count = 1
    /\ \E img1, img2 \in FnImages :
            /\ Coverage(call.rows, img1) = 2
            /\ Coverage(call.rows, img2) = 1

----------------------------------------------------------------------------
(* C12 *)

\* C12: select_random_image returns None exactly when the list is empty,
\* a member of the list when it is not, and x for the list [x].
C12_SelectIsMemberOrNone ==
    call.fn = "select_random_image" =>
        /\ (call.image = None) <=> (call.unlabeled = <<>>)
        /\ (call.unlabeled # <<>> => call.image \in Elems(call.unlabeled))
        /\ (Len(call.unlabeled) = 1 => call.image = call.unlabeled[1])

\* the second image of a two-image list was chosen
C12_Witness ==
    /\ call.fn = "select_random_image"
    /\ Len(call.unlabeled) = 2
    /\ call.unlabeled[1] # call.unlabeled[2]
    /\ call.image = call.unlabeled[2]

----------------------------------------------------------------------------
(* C13 *)

\* Submit with any of the checkbox inputs, none ticked among them
SubmitLabels(s, ticked) ==
    /\ Len(store) + Len(threads) < MaxLabelSubmits
    /\ Submit(s, ticked)

NextLabels ==
    \/ \E s \in Sessions, name \in NameInputs : Start(s, name)
    \/ \E s \in Sessions : Run(s)
    \/ \E s \in Sessions, ticked \in FnCheckboxInputs : SubmitLabels(s, ticked)
    \/ \E s \in Sessions : Draw(s)
    \/ \E s \in Sessions : Skip(s)
    \/ \E i \in 1..MaxLabelSubmits : InsertOk(i)
    \/ \E i \in 1..MaxLabelSubmits : InsertFail(i)
    \/ Expire

SpecLabels == Init /\ [][NextLabels]_vars

----------------------------------------------------------------------------
(* C14 *)

\* the rows a run of this state gets from fetch_labels()
Snapshot == IF cache.fresh THEN cache.rows ELSE store

\* the images a draw reading the snapshot may give
Eligible == {img \in Elems(catalog) : Coverage(Snapshot, img) < 2}

\* Submit of the one checkbox input, up to the smaller bound
SubmitDraw(s, ticked) ==
    /\ Len(store) + Len(threads) < MaxLabelSubmits
    /\ Submit(s, ticked)

NextDraw ==
    \/ \E s \in Sessions, name \in NameInputs : Start(s, name)
    \/ \E s \in Sessions : Run(s)
    \/ \E s \in Sessions, ticked \in CheckboxInputs : SubmitDraw(s, ticked)
    \/ \E s \in Sessions : Draw(s)
    \/ \E s \in Sessions : Skip(s)
    \/ \E i \in 1..MaxLabelSubmits : InsertOk(i)
    \/ \E i \in 1..MaxLabelSubmits : InsertFail(i)
    \/ Expire

SpecDraw == Init /\ [][NextDraw]_vars

\* C14: the images the draw after a Submit can give the session are exactly
\* the catalog images with fewer than 2 distinct users in the snapshot the
\* draw reads, the image just submitted among them when the snapshot has
\* it below 2, and None when there is no such image.  The draw of Skip and
\* the first presentation give an image below 2 in the snapshot they read,
\* or leave the session's image as it is when there is none.
C14_DrawIsAnyEligibleOfSnapshot ==
    /\ [](\A s \in Sessions :
            pc[s] = "draw" =>
                \A img \in Eligible : ENABLED (Draw(s) /\ current_image'[s] = img))
    /\ [][\A s \in Sessions :
            /\ Draw(s) =>
                    \/ current_image'[s] \in Eligible'
                    \/ Eligible' = {} /\ current_image'[s] = None
            /\ (Skip(s) \/ \E name \in NameInputs : Start(s, name)) =>
                    \/ current_image'[s] \in Eligible'
                    \/ Eligible' = {} /\ current_image'[s] = current_image[s]
                    \/ user'[s] = None]_vars

\* a session has submitted the image it was presenting, the event is in
\* the Label Store, the snapshot is the one from before, and the session
\* presents the same image again
C14_Witness ==
    \E s \in Sessions :
        /\ pc[s] = "idle"
        /\ view[s] = "form"
        /\ threads = <<>>
        /\ Len(store) = 1
        /\ store[1].user = user[s]
        /\ store[1].image = current_image[s]
        /\ \A s2 \in Sessions \ {s} : user[s2] # user[s]
        /\ cache.fresh
        /\ cache.rows = <<>>
        /\ Len(catalog) = 2

----------------------------------------------------------------------------
(* C15 *)

\* three browser sessions, each of another user
Sessions3 == {1, 2, 3}

Names3 == << <<"a">>, <<" ", "b", " ">>, <<"c">> >>

Init3 ==
    /\ \E test_file \in TestFiles : catalog = load_images_list(test_file)
    /\ store = <<>>
    /\ threads = <<>>
    /\ cache = NoEntry
    /\ user = [s \in Sessions3 |-> None]
    /\ current_image = [s \in Sessions3 |-> None]
    /\ view = [s \in Sessions3 |-> "login"]
    /\ progress = [s \in Sessions3 |-> NoProgress]
    /\ pc = [s \in Sessions3 |-> "idle"]
    /\ call = NoCall

\* the first Submit of a session: here every user labels one image
SubmitOnce(s, ticked) ==
    /\ \A r \in Elems(store \o threads) : r.user # user[s]
    /\ Submit(s, ticked)

Next3 ==
    \/ \E s \in Sessions3 : Start(s, Names3[s])
    \/ \E s \in Sessions3 : Run(s)
    \/ \E s \in Sessions3, ticked \in CheckboxInputs : SubmitOnce(s, ticked)
    \/ \E s \in Sessions3 : Draw(s)
    \/ \E s \in Sessions3 : Skip(s)
    \/ \E i \in 1..MaxSubmits : InsertOk(i)
    \/ \E i \in 1..MaxSubmits : InsertFail(i)
    \/ Expire

Spec3 == Init3 /\ [][Next3]_vars

\* C15 as stated: no image has labels from more than 2 distinct users in
\* the Label Store.
C15_AtMostTwoUsersPerImage ==
    \A img \in Elems(catalog) : Coverage(store, img) <= 2

\* the users who have submitted an image or are presenting it
Labelers(img) ==
    UsersOf(store \o threads, img)
        \cup {user[s] : s \in {t \in Sessions3 : current_image[t] = img}}

\* C15 amended: a step whose snapshot has an image at 2 or more distinct
\* users gives that image to no session: the users who have submitted the
\* image or are presenting it are not more after the step than before.
C15_CompleteInSnapshotGainsNoLabeler ==
    [][\A img \in Elems(catalog) :
        (cache'.fresh /\ Coverage(cache'.rows, img) >= 2)
            => Labelers(img)' \subseteq Labelers(img)]_vars

\* three users have labeled one image, the snapshot shows it, and a session
\* that was presenting that image presents another one
C15_Witness ==
    \E img \in Elems(catalog) :
        /\ Coverage(store, img) = 3
        /\ cache.fresh
        /\ Coverage(cache.rows, img) = 3
        /\ \E s \in Sessions3 :
                /\ pc[s] = "idle"
                /\ view[s] = "form"
                /\ current_image[s] # img

----------------------------------------------------------------------------
(* C16 *)

\* C16: a session that is shown the labeling form has a current image, and
\* it is an image of the catalog; no Skip leaves its session without an
\* image, and a session whose image is None is not shown the form.
C16_FormHasCatalogImage ==
    /\ [](\A s \in Sessions :
            view[s] = "form" =>
                /\ user[s] # None
                /\ current_image[s] # None
                /\ current_image[s] \in Elems(catalog))
    /\ [][\A s \in Sessions : current_image'[s] = None => ~Skip(s)]_vars

\* the draw after a Submit found no eligible image and left None: the
\* session is shown the all-labeled message, while another session still
\* has the form with its image
C16_Witness ==
    \E s, s2 \in Sessions :
        /\ pc[s] = "idle"
        /\ view[s] = "done"
        /\ current_image[s] = None
        /\ \E i \in DOMAIN store : store[i].user = user[s]
        /\ user[s2] # user[s]
        /\ pc[s2] = "idle"
        /\ view[s2] = "form"
        /\ current_image[s2] \in Elems(catalog)

----------------------------------------------------------------------------
(* C17 *)

\* C17: the user of every event submitted or stored is a name that is not
\* empty and neither starts nor ends with whitespace; a session's user is
\* set by a Start with a name that is not blank and never changes after;
\* an event is submitted only by a session that has a user, with that user.
C17_EventUserIsLoginName ==
    [][/\ \A r \in Elems(store') \cup Elems(threads') :
            /\ r.user # None
            /\ r.user # <<>>
            /\ r.user[1] \notin Whitespace
            /\ r.user[Len(r.user)] \notin Whitespace
       /\ \A s \in Sessions :
            user'[s] # user[s] =>
                /\ user[s] = None
                /\ \E name \in NameInputs : ~IsBlank(name) /\ Start(s, name)
       /\ Len(threads') > Len(threads) =>
            \E s \in Sessions :
                /\ user[s] # None
                /\ view[s] = "form"
                /\ threads'[Len(threads')].user = user[s]
                /\ user'[s] = user[s]]_vars

\* both sessions have logged in, each has typed a name and has an event of
\* its user in the Label Store
C17_Witness ==
    /\ user[1] = <<"a">>
    /\ user[2] = <<"b">>
    /\ \A s \in Sessions : \E i \in DOMAIN store : store[i].user = user[s]

----------------------------------------------------------------------------
(* C18 *)

\* fetch_labels() statement by statement, in session 1, on a cache miss,
\* while rows are inserted into the table.  call.rows is all_rows.

InitFetch ==
    /\ catalog = <<>>
    /\ store = <<>>
    /\ threads = <<>>
    /\ cache = NoEntry
    /\ user = [s \in Sessions |-> None]
    /\ current_image = [s \in Sessions |-> None]
    /\ view = [s \in Sessions |-> "login"]
    /\ progress = [s \in Sessions |-> NoProgress]
    /\ pc = [s \in Sessions |-> "idle"]
    /\ call = NoCall

\* the insert of lines 46-52, by any thread; the table takes one row more
\* than MaxRows, so that a row can be inserted after MaxRows were counted
InsertRow(r) ==
    /\ Len(store) <= MaxRows
    /\ store' = Append(store, r)
    /\ UNCHANGED <<catalog, threads, cache, user, current_image, view, progress, pc, call>>

\* lines 63-66: the count query
FetchCount ==
    /\ pc[1] = "idle"
    /\ call' = [NoCall EXCEPT !.fn = "fetch_labels", !.total_count = Len(store)]
    /\ pc' = [pc EXCEPT ![1] = "pages"]
    /\ UNCHANGED <<catalog, store, threads, cache, user, current_image, view, progress>>

\* lines 68-73: one turn of the loop
FetchPage ==
    /\ pc[1] = "pages"
    /\ call.offset < call.total_count
    /\ LET start == call.offset
           end == call.offset + PAGE_SIZE - 1
       IN  call' = [call EXCEPT !.rows = call.rows \o Range(store, start, end),
                                !.offset = call.offset + PAGE_SIZE]
    /\ UNCHANGED <<catalog, store, threads, cache, user, current_image, view, progress, pc>>

\* line 75, and st.cache_data storing the result
FetchReturn ==
    /\ pc[1] = "pages"
    /\ call.offset >= call.total_count
    /\ cache' = [rows |-> call.rows, fresh |-> TRUE]
    /\ pc' = [pc EXCEPT ![1] = "idle"]
    /\ UNCHANGED <<catalog, store, threads, user, current_image, view, progress, call>>

NextFetch ==
    \/ \E r \in FnRows : InsertRow(r)
    \/ FetchCount
    \/ FetchPage
    \/ FetchReturn

SpecFetch == InitFetch /\ [][NextFetch]_vars

\* C18: the rows fetch_labels has read are at every point the first rows
\* of the table, in table order, none skipped and none twice; the rows it
\* returns are at least those the count query counted, followed only by
\* rows inserted after the count; with a count of 0 it returns no row.
C18_FetchReturnsCountedPrefix ==
    call.fn = "fetch_labels" =>
        /\ call.total_count <= Len(store)
        /\ IsPrefix(call.rows, store)
        /\ Len(call.rows) >= Min(call.offset, call.total_count)
        /\ pc[1] = "idle" =>
                /\ Len(call.rows) >= call.total_count
                /\ \A i \in 1..call.total_count : call.rows[i] = store[i]
                /\ cache.rows = call.rows
                /\ (call.total_count = 0 => call.rows = <<>>)

\* the count query counted a page and one row, another row was inserted
\* before the second page was read, and the call returned it as well
C18_Witness ==
    /\ call.fn = "fetch_labels"
    /\ pc[1] = "idle"
    /\ call.total_count = PAGE_SIZE + 1
    /\ Len(call.rows) = PAGE_SIZE + 2
    /\ call.rows = store
    /\ \A i, j \in DOMAIN store : i # j => store[i] # store[j]

====
